---- MODULE Spec2Model ----
(***************************************************************************)
(* A model of wdk-wallet-btc.                                              *)
(*                                                                         *)
(* Spec: the full-access bitcoin account (src/src/wallet-account-btc.js),  *)
(* the secret buffers it owns and their disposal, its synchronous          *)
(* operations, and the transaction builder behind sendTransaction /        *)
(* quoteSendTransaction, run step by step between the Electrum calls at    *)
(* which the operation is suspended.                                       *)
(*                                                                         *)
(* SpecTransfers: getTransfers of the read-only account, in the two        *)
(* revisions the repository holds, one pass of its loop over the history   *)
(* at a time, every get_transaction answering or failing.                  *)
(*                                                                         *)
(* SpecManager: the path the constructor of the account assembles, and     *)
(* the wallet manager that hands out accounts by path and disposes them.   *)
(*                                                                         *)
(* SpecOverlap: two sendTransaction calls on one account, the second       *)
(* begun while the first is suspended at an Electrum call.                 *)
(***************************************************************************)
EXTENDS Integers, Sequences, FiniteSets, TLC

VARIABLES
  heap,       \* the byte buffers allocated by the constructor, by identity
  account,    \* the fields of the WalletAccountBtc object
  electrum,   \* the Electrum client handle of the account
  unspent,    \* server side: the list blockchain.scripthash.listunspent returns
  call,       \* the sendTransaction / quoteSendTransaction call in progress
  result,     \* the outcome of the operation that completed last
  xfer,       \* the read-only account's getTransfers call and what it fetched
  manager,    \* the wallet manager and the accounts it handed out
  overlap     \* a second sendTransaction call, begun while `call` is suspended

vars == <<heap, account, electrum, unspent, call, result, xfer, manager, overlap>>

\* ---------------------------------------------------------------- bounds

MaxSeed == 2
KeyLen == 2
MaxUtxos == 2
MaxHistory == 3
MaxLimit == 2
MaxSkip == 2
MaxAccounts == 2
MaxIndex == 1

\* --------------------------------------------------- program constants

DUST_LIMIT == 546
MIN_FEE == 141

\* ------------------------------------------------------ input domains

Seeds == 1..MaxSeed
\* the values of the UTXOs the server lists, and the values asked to be sent:
\* at and right above the dust limit, below and above one UTXO
UtxoValues == {700, 1341}
SendValues == {546, 547, 600, 1000}
\* what getFeeEstimateInSatsPerVb answers, in sats/vB
FeeEstimates == {0, 1, 2}
\* the account's own address, a foreign P2WPKH address, an undecodable one
OwnAddress == "own"
Addresses == {OwnAddress, "other", "bad"}
Messages == {"m1", "m2"}
\* The length of a witness signature: a DER-encoded ECDSA signature (low s)
\* followed by the sighash byte is 71 bytes long when the top bit of r is
\* clear and 72 when it is set; which one depends on what is signed.
SigLens == {71, 72}

NULL == "null"

\* ------------------------------------------------------------ helpers

RECURSIVE SumValues(_)
SumValues(s) == IF s = <<>> THEN 0 ELSE s[1].value + SumValues(Tail(s))

RECURSIVE SumSeq(_)
SumSeq(s) == IF s = <<>> THEN 0 ELSE s[1] + SumSeq(Tail(s))

MaxOf(a, b) == IF a >= b THEN a ELSE b

SeqsUpTo(S, n) == UNION {[1..k -> S] : k \in 0..n}

\* ------------------------------------------------- keys and buffers

\* hmac(sha512, 'Bitcoin seed', seedBuffer): a buffer of non-zero bytes that
\* differs from seed to seed; its first half is the master private key, its
\* second half the master chain code.
HmacSha512(seed) == [i \in 1..(2 * KeyLen) |-> seed * 10 + i]

\* Uint8Array.prototype.slice: a copy of the bytes from..to.
Slice(buf, from, to) == [i \in 1..(to - from + 1) |-> buf[from + i - 1]]

\* the secp256k1 public key of a private key
PubOf(priv) == [i \in DOMAIN priv |-> priv[i] + 100]

\* the number a path segment stands for in a derivation step
SegmentCode(segment) ==
  CASE segment = "0" -> 1 [] segment = "1" -> 2 [] segment = "2" -> 3
    [] segment = "3" -> 4 [] segment = "0'" -> 5 [] segment = "1'" -> 6
    [] segment = "44'" -> 7 [] segment = "84'" -> 8

\* the derivation steps of a BIP-32 path "m/s1/.../sk", a sequence of
\* segments and slashes, folded into one number: no two paths give the
\* same one
RECURSIVE PathCode(_)
PathCode(path) ==
  IF Len(path) <= 1 THEN 0
  ELSE SegmentCode(path[Len(path)]) + 9 * PathCode(SubSeq(path, 1, Len(path) - 2))

\* BIP-32 derivation of the child private key at a path: a key that
\* differs from path to path and from the master key
DerivePath(priv, chainCode, path) ==
  [i \in DOMAIN priv |-> priv[i] + chainCode[i] + 1000 * PathCode(path)]

Zeroes(buf) == [i \in DOMAIN buf |-> 0]

IsZero(buf) == \A i \in DOMAIN buf : buf[i] = 0

\* sodium_memzero(buffer)
Memzero(h, id) == [h EXCEPT ![id] = Zeroes(h[id])]

BufIds == {"master", "priv", "chain", "nodeD", "nodeChain", "nodeQ", "childPub"}

\* The constructor: the buffers it allocates ...
ConstructHeap(seed, path) ==
  LET master == HmacSha512(seed)
      priv == Slice(master, 1, KeyLen)
      chain == Slice(master, KeyLen + 1, 2 * KeyLen)
  IN [id \in BufIds |->
        CASE id = "master" -> master
          [] id = "priv" -> priv
          [] id = "chain" -> chain
          [] id = "nodeD" -> priv          \* Buffer.from(this._privateKeyBuffer)
          [] id = "nodeChain" -> chain     \* Buffer.from(this._chainCodeBuffer)
          [] id = "nodeQ" -> PubOf(priv)
          [] id = "childPub" -> PubOf(DerivePath(priv, chain, path))]

\* The BIP-32 node bip32.fromPrivateKey returns: the buffers behind its
\* fields __D (private key), __Q (public key) and chainCode.
Bip32Node == [D |-> "nodeD", Q |-> "nodeQ", chainCode |-> "nodeChain"]

\* ... and the fields that refer to them.  keyPair.privateKey is the very
\* buffer _privateKeyBuffer refers to.
ConstructAccount ==
  [masterKeyAndChainCodeBuffer |-> "master",
   privateKeyBuffer |-> "priv",
   chainCodeBuffer |-> "chain",
   bip32 |-> "node",
   address |-> OwnAddress,
   keyPair |-> [publicKey |-> "childPub", privateKey |-> "priv"]]

\* new ElectrumClient(config)
ConstructElectrum == [connected |-> TRUE]

\* ElectrumClient.disconnect
ElectrumDisconnect(e) == [e EXCEPT !.connected = FALSE]

\* ------------------------------------------------------------ dispose

\* dispose(), first half: the six sodium_memzero calls, in order.
DisposeHeapKeepNode(h, a) ==
  Memzero(Memzero(Memzero(h, a.privateKeyBuffer), a.chainCodeBuffer),
          a.masterKeyAndChainCodeBuffer)

DisposeHeap(h, a) ==
  LET h1 == Memzero(h, a.privateKeyBuffer)
      h2 == Memzero(h1, a.chainCodeBuffer)
      h3 == Memzero(h2, a.masterKeyAndChainCodeBuffer)
      h4 == Memzero(h3, a.keyPair.privateKey)
      h5 == Memzero(h4, Bip32Node.Q)
  IN Memzero(h5, Bip32Node.D)

\* dispose(), second half: the fields set to null.
DisposeFields(a) ==
  [a EXCEPT !.bip32 = NULL,
            !.privateKeyBuffer = NULL,
            !.chainCodeBuffer = NULL,
            !.masterKeyAndChainCodeBuffer = NULL]

\* dispose() throws a TypeError before it changes anything when a field it
\* dereferences is null: sodium_memzero(null), and this._bip32.__Q of null.
DisposeThrows(a) == a.privateKeyBuffer = NULL \/ a.bip32 = NULL

\* The account has been disposed of: dispose() keeps no flag, its trace is
\* the nulled fields.
Disposed == account.bip32 = NULL

NoTx == [ins |-> <<>>, outs |-> <<>>, sigs |-> <<>>]

\* no sendTransaction / quoteSendTransaction call is in progress
NoCall ==
  [pc |-> "idle", op |-> "none", to |-> NULL, value |-> 0, disposed |-> FALSE,
   utxos |-> <<>>, idx |-> 0, collected |-> <<>>, rate |-> 0,
   tx |-> NoTx, fee |-> 0, trace |-> <<>>]

Idle == call.pc = "idle"

Res(op, kind, val) == [op |-> op, kind |-> kind, disposed |-> Disposed, val |-> val]

NoResult == [op |-> "none", kind |-> "none", disposed |-> FALSE, val |-> NULL]

Dispose ==
  /\ IF DisposeThrows(account)
       THEN /\ result' = Res("dispose", "TypeError", NULL)
            /\ UNCHANGED <<heap, account, electrum>>
       ELSE /\ heap' = DisposeHeap(heap, account)
            /\ account' = DisposeFields(account)
            /\ electrum' = ElectrumDisconnect(electrum)
            /\ result' = Res("dispose", "ok", NULL)
  /\ UNCHANGED <<unspent, call, xfer, manager, overlap>>

\* ----------------------------------------------- synchronous operations

\* getAddress(): the memoized address.
GetAddress ==
  /\ Idle
  /\ result' = Res("getAddress", "ok", account.address)
  /\ UNCHANGED <<heap, account, electrum, unspent, call, xfer, manager, overlap>>

\* get keyPair(): the bytes the caller reads through the returned object.
KeyPair ==
  /\ Idle
  /\ result' = Res("keyPair", "ok",
                   [publicKey |-> heap[account.keyPair.publicKey],
                    privateKey |-> heap[account.keyPair.privateKey]])
  /\ UNCHANGED <<heap, account, electrum, unspent, call, xfer, manager, overlap>>

\* ECDSA over sha256(message) with the node's key
EcdsaSign(message, d) == [msg |-> message, pub |-> PubOf(d)]
EcdsaVerify(message, sig, q) == sig.msg = message /\ sig.pub = q

\* sign(message): this._bip32.sign(...)
Sign ==
  /\ Idle
  /\ \E m \in Messages :
       result' = IF account.bip32 = NULL
                   THEN Res("sign", "TypeError", NULL)
                   ELSE Res("sign", "ok", EcdsaSign(m, heap[Bip32Node.D]))
  /\ UNCHANGED <<heap, account, electrum, unspent, call, xfer, manager, overlap>>

\* a string that does not decode to a signature
Malformed == [msg |-> "malformed", pub |-> <<>>]

Signatures ==
  {EcdsaSign(m, Slice(HmacSha512(s), 1, KeyLen)) : m \in Messages, s \in Seeds}

\* verify(message, signature): this._bip32.verify(...)
Verify ==
  /\ Idle
  /\ \E m \in Messages, sig \in Signatures \cup {Malformed} :
       result' = IF account.bip32 = NULL
                   THEN Res("verify", "TypeError", NULL)
                   ELSE IF sig = Malformed
                     THEN Res("verify", "MalformedSignature", NULL)
                     ELSE Res("verify", "ok", EcdsaVerify(m, sig, heap[Bip32Node.Q]))
  /\ UNCHANGED <<heap, account, electrum, unspent, call, xfer, manager, overlap>>

\* getBalance(): one Electrum call, which answers or fails.
GetBalance ==
  /\ Idle
  /\ \E ok \in BOOLEAN :
       result' = IF ok THEN Res("getBalance", "ok", SumValues(unspent))
                       ELSE Res("getBalance", "NetworkFailure", NULL)
  /\ UNCHANGED <<heap, account, electrum, unspent, call, xfer, manager, overlap>>

\* ------------------------------------------------ transaction builder

\* address.toOutputScript: every address but the undecodable one is a
\* P2WPKH address of the configured network.
ValidAddress(addr) == addr # "bad"

\* A serialized output: 8 bytes of value, the script length, a 22-byte
\* P2WPKH script.
OUTPUT_BYTES == 31
\* A serialized input without its witness: outpoint (36), the empty
\* scriptSig's length (1), sequence (4).
INPUT_BYTES == 41
\* version (4), input count (1), output count (1), locktime (4)
TX_OVERHEAD_BYTES == 10
\* A P2WPKH witness besides the signature: item count (1), signature
\* length (1), public key length (1), compressed public key (33).
WITNESS_OVERHEAD_BYTES == 36

\* Transaction.virtualSize(): ceil(weight / 4), weight = 3 * base size +
\* total size, the total size holding the segwit marker and flag and each
\* input's witness.
VirtualSize(tx) ==
  LET base == TX_OVERHEAD_BYTES + INPUT_BYTES * Len(tx.ins) + OUTPUT_BYTES * Len(tx.outs)
      witness == 2 + WITNESS_OVERHEAD_BYTES * Len(tx.sigs) + SumSeq(tx.sigs)
  IN (4 * base + witness + 3) \div 4

\* createPsbt: the recipient output, psbt.addOutput({address: recipient, value: amount})
RecipientOutputToSelf(recipient, amount) == [address |-> OwnAddress, value |-> amount]

RecipientOutput(recipient, amount) == [address |-> recipient, value |-> amount]

\* createPsbt: change.isGreaterThan(DUST_LIMIT)
HasChangeOutputAboveZero(change) == change > 0

HasChangeOutput(change) == change > DUST_LIMIT

\* createPsbt: change.isLessThan(0)
InsufficientNever(change) == FALSE

Insufficient(change) == change < 0

\* a variant that builds and signs with a key it kept from before dispose()
CreatePsbtKeptKey(a, utxoSet, amount, recipient, fee, sigs) ==
  LET change == SumValues(utxoSet) - amount - fee
      first == RecipientOutput(recipient, amount)
  IN IF ~ValidAddress(recipient)
       THEN [kind |-> "InvalidRecipient", tx |-> NoTx]
     ELSE IF HasChangeOutput(change)
       THEN [kind |-> "ok",
             tx |-> [ins |-> utxoSet,
                     outs |-> <<first, [address |-> a.address, value |-> change]>>,
                     sigs |-> sigs]]
     ELSE IF Insufficient(change)
       THEN [kind |-> "InsufficientBalance", tx |-> NoTx]
     ELSE [kind |-> "ok", tx |-> [ins |-> utxoSet, outs |-> <<first>>, sigs |-> sigs]]

\* createPsbt(fee): the signed transaction paying `fee`, or the error it
\* throws.  sigs: the lengths of the signatures signInputHD produces.
CreatePsbt(a, utxoSet, amount, recipient, fee, sigs) ==
  LET totalInput == SumValues(utxoSet)
      change == totalInput - amount - fee
      first == RecipientOutput(recipient, amount)
  IN IF a.bip32 = NULL
       THEN [kind |-> "TypeError", tx |-> NoTx]            \* this._bip32.fingerprint
     ELSE IF ~ValidAddress(recipient)
       THEN [kind |-> "InvalidRecipient", tx |-> NoTx]     \* psbt.addOutput throws
     ELSE IF HasChangeOutput(change)
       THEN [kind |-> "ok",
             tx |-> [ins |-> utxoSet,
                     outs |-> <<first, [address |-> a.address, value |-> change]>>,
                     sigs |-> sigs]]
     ELSE IF Insufficient(change)
       THEN [kind |-> "InsufficientBalance", tx |-> NoTx]
     ELSE [kind |-> "ok", tx |-> [ins |-> utxoSet, outs |-> <<first>>, sigs |-> sigs]]

\* the fee of _getRawTransaction: max(ceil(feeRate * vsize), 141)
EstimatedFee(feeRate, dummyTx) == MaxOf(feeRate * VirtualSize(dummyTx), MIN_FEE)

\* _getRawTransaction(utxoSet, amount, recipient, feeRate).  sigs0 and sigs1
\* are the signature lengths of the provisional and of the final build.
GetRawTransaction(a, utxoSet, amount, recipient, feeRate, sigs0, sigs1) ==
  IF amount <= DUST_LIMIT
    THEN [kind |-> "BelowDustLimit", tx |-> NoTx, fee |-> 0]
    ELSE LET p0 == CreatePsbt(a, utxoSet, amount, recipient, 0, sigs0)
         IN IF p0.kind # "ok"
              THEN [kind |-> p0.kind, tx |-> NoTx, fee |-> 0]
              ELSE LET estimatedFee == EstimatedFee(feeRate, p0.tx)
                       p1 == CreatePsbt(a, utxoSet, amount, recipient, estimatedFee, sigs1)
                   IN IF p1.kind # "ok"
                        THEN [kind |-> p1.kind, tx |-> NoTx, fee |-> estimatedFee]
                        ELSE [kind |-> "ok", tx |-> p1.tx, fee |-> estimatedFee]

\* _getTransaction: the fee rate is at least 1 sat/vB
ClampFeeRate(estimate) == IF estimate < 1 THEN 1 ELSE estimate

\* ------------------------------------- the read-only account's quote

\* the length of the dummy signature _estimateFee puts in every witness
DUMMY_SIG_BYTES == 71

\* _estimateFee, the loop over the UTXOs from the k-th on: the k first
\* UTXOs are selected, a provisional transaction with dummy witnesses is
\* sized, and the loop leaves when the selection covers value and fee.
\* Its result is the fee and the total of the selection it stopped at.
\* (What bitcoinjs itself checks when the transaction is extracted is
\* left out.)
RECURSIVE EstimateLoop(_, _, _, _)
EstimateLoop(utxos, k, value, feeRate) ==
  LET selected == SubSeq(utxos, 1, k)
      total == SumValues(selected)
      provisionalChange == total - value
      outs == IF provisionalChange > DUST_LIMIT THEN 2 ELSE 1
      vsize == VirtualSize([ins |-> selected,
                            outs |-> [i \in 1..outs |-> i],
                            sigs |-> [i \in 1..k |-> DUMMY_SIG_BYTES]])
      fee == MaxOf(vsize * feeRate, MIN_FEE)
  IN IF total >= value + fee \/ k = Len(utxos)
       THEN [fee |-> fee, total |-> total]
       ELSE EstimateLoop(utxos, k + 1, value, feeRate)

\* quoteSendTransaction of the read-only account, _estimateFee, once the
\* fee estimate and the UTXO list are there: the fee or the error
EstimateFee(utxos, to, value, estimate) ==
  LET feeRate == MaxOf(estimate, 1)
      last == EstimateLoop(utxos, 1, value, feeRate)
  IN IF Len(utxos) = 0 THEN [kind |-> "NoUnspentOutputs", fee |-> 0]
     ELSE IF ~ValidAddress(to) THEN [kind |-> "InvalidRecipient", fee |-> 0]
     ELSE IF last.total < value + last.fee THEN [kind |-> "InsufficientBalance", fee |-> 0]
     ELSE [kind |-> "ok", fee |-> last.fee]

\* ------------------------------- sendTransaction / quoteSendTransaction

\* the outcome of a sendTransaction / quoteSendTransaction call: what it
\* was asked, what it gathered, the fee it estimated (0 before it did), the
\* transaction it built (NoTx when it built none) and the Electrum requests
\* it issued
CallResult(c, kind) ==
  [op |-> c.op, kind |-> kind, disposed |-> c.disposed,
   val |-> [to |-> c.to, value |-> c.value, utxos |-> c.utxos,
            collected |-> c.collected, rate |-> c.rate,
            tx |-> c.tx, fee |-> c.fee,
            trace |-> c.trace]]

\* the call ends: it returns or throws
Finish(c, kind) ==
  /\ call' = NoCall
  /\ result' = CallResult(c, kind)

\* sendTransaction({to, value}) / quoteSendTransaction({to, value}) up to the
\* first Electrum request, getUnspent(address)
StartTransaction ==
  /\ Idle
  /\ \E op \in {"sendTransaction", "quoteSendTransaction"},
        to \in Addresses, value \in SendValues :
       call' = [NoCall EXCEPT !.pc = "list_unspent", !.op = op, !.to = to,
                              !.value = value, !.disposed = Disposed,
                              !.trace = <<"list_unspent">>]
  /\ result' = NoResult
  /\ UNCHANGED <<heap, account, electrum, unspent, xfer, manager, overlap>>

\* _getUtxos: getUnspent answers or fails
ListUnspentReply ==
  /\ call.pc = "list_unspent"
  /\ \E ok \in BOOLEAN :
       IF ~ok THEN Finish(call, "NetworkFailure")
       ELSE IF Len(unspent) = 0 THEN Finish([call EXCEPT !.utxos = unspent], "NoUnspentOutputs")
       ELSE /\ call' = [call EXCEPT !.pc = "get_transaction", !.utxos = unspent, !.idx = 1,
                                    !.trace = Append(@, "get_transaction")]
            /\ UNCHANGED result
  /\ UNCHANGED <<heap, account, electrum, unspent, xfer, manager, overlap>>

\* a variant that publishes as soon as the inputs are gathered
NextRequestPublishFirst(done) == IF done THEN "broadcast" ELSE "get_transaction"

\* the Electrum request that follows a getTransaction answer: the next
\* UTXO's getTransaction while the loop runs, getFeeEstimateInSatsPerVb
\* once _getUtxos returned
NextRequest(done) == IF done THEN "estimate_fee" ELSE "get_transaction"

\* a variant that takes every UTXO of the list
GatheredEnoughNever(collected, amount) == FALSE

\* _getUtxos: if (totalCollected.isGreaterThanOrEqualTo(amount)) break
GatheredEnough(collected, amount) == SumValues(collected) >= amount

\* _getUtxos: the loop body after getTransaction(utxo.tx_hash) answered
GetTransactionReply ==
  /\ call.pc = "get_transaction"
  /\ \E ok \in BOOLEAN :
       IF ~ok THEN Finish(call, "NetworkFailure")
       ELSE LET collected == Append(call.collected, call.utxos[call.idx])
                done == GatheredEnough(collected, call.value) \/ call.idx = Len(call.utxos)
            IN /\ call' = [call EXCEPT
                             !.collected = collected,
                             !.idx = IF done THEN @ ELSE @ + 1,
                             !.pc = NextRequest(done),
                             !.trace = Append(@, NextRequest(done))]
               /\ UNCHANGED result
  /\ UNCHANGED <<heap, account, electrum, unspent, xfer, manager, overlap>>

\* RFC 6979: a signature is a function of the key and of what is signed, so
\* two builds of one and the same transaction carry the same signatures.
SameSignatures(a, utxoSet, amount, recipient, feeRate, sigs0, sigs1) ==
  LET p0 == CreatePsbt(a, utxoSet, amount, recipient, 0, sigs0)
      p1 == CreatePsbt(a, utxoSet, amount, recipient, EstimatedFee(feeRate, p0.tx), sigs0)
  IN (p0.kind = "ok" /\ p1.kind = "ok" /\ p1.tx.outs = p0.tx.outs) => sigs1 = sigs0

\* _getTransaction after getFeeEstimateInSatsPerVb answered: the fee rate
\* clamp and _getRawTransaction, which suspends at no Electrum call.
EstimateFeeReply ==
  /\ call.pc = "estimate_fee"
  /\ \E ok \in BOOLEAN, estimate \in FeeEstimates,
        sigs0 \in [1..Len(call.collected) -> SigLens],
        sigs1 \in [1..Len(call.collected) -> SigLens] :
       IF ~ok THEN Finish(call, "NetworkFailure")
       ELSE LET feeRate == ClampFeeRate(estimate)
                raw == GetRawTransaction(account, call.collected, call.value, call.to,
                                         feeRate, sigs0, sigs1)
                c == [call EXCEPT !.rate = feeRate, !.tx = raw.tx, !.fee = raw.fee]
            IN /\ SameSignatures(account, call.collected, call.value, call.to,
                                 feeRate, sigs0, sigs1)
               /\ IF raw.kind # "ok" THEN Finish(c, raw.kind)
                  ELSE IF call.op = "quoteSendTransaction" THEN Finish(c, "ok")
                  ELSE /\ call' = [c EXCEPT !.pc = "broadcast",
                                            !.trace = Append(@, "broadcast")]
                       /\ UNCHANGED result
  /\ UNCHANGED <<heap, account, electrum, unspent, xfer, manager, overlap>>

\* sendTransaction after broadcastTransaction(tx.hex) answered
BroadcastReply ==
  /\ call.pc = "broadcast"
  /\ \E ok \in BOOLEAN :
       Finish(call, IF ok THEN "ok" ELSE "NetworkFailure")
  /\ UNCHANGED <<heap, account, electrum, unspent, xfer, manager, overlap>>

\* ------------------------------------ two overlapping sendTransaction

\* no second call has been made
NoOverlap == [call |-> NoCall, result |-> NoResult]

\* the second call ends: it returns or throws
OverlapFinish(c, kind) ==
  /\ overlap' = [call |-> NoCall, result |-> CallResult(c, kind)]
  /\ UNCHANGED <<heap, account, electrum, unspent, call, result, xfer, manager>>

\* the second call goes on to its next Electrum request
OverlapGoOn(c) ==
  /\ overlap' = [overlap EXCEPT !.call = c]
  /\ UNCHANGED <<heap, account, electrum, unspent, call, result, xfer, manager>>

\* sendTransaction({to, value}) called while a sendTransaction on the same
\* account is suspended at an Electrum call: nothing in sendTransaction or
\* _getTransaction holds the second call back
OverlapStart ==
  /\ call.op = "sendTransaction"
  /\ call.pc # "idle"
  /\ overlap = NoOverlap
  /\ \E to \in Addresses, value \in SendValues :
       OverlapGoOn([NoCall EXCEPT !.pc = "list_unspent", !.op = "sendTransaction",
                                  !.to = to, !.value = value, !.disposed = Disposed,
                                  !.trace = <<"list_unspent">>])

\* _getUtxos of the second call: getUnspent answers or fails
OverlapListUnspentReply ==
  /\ overlap.call.pc = "list_unspent"
  /\ \E ok \in BOOLEAN :
       LET c == overlap.call
       IN IF ~ok THEN OverlapFinish(c, "NetworkFailure")
          ELSE IF Len(unspent) = 0
            THEN OverlapFinish([c EXCEPT !.utxos = unspent], "NoUnspentOutputs")
          ELSE OverlapGoOn([c EXCEPT !.pc = "get_transaction", !.utxos = unspent,
                                     !.idx = 1,
                                     !.trace = Append(@, "get_transaction")])

\* _getUtxos of the second call: the loop body after getTransaction answered
OverlapGetTransactionReply ==
  /\ overlap.call.pc = "get_transaction"
  /\ \E ok \in BOOLEAN :
       LET c == overlap.call
           collected == Append(c.collected, c.utxos[c.idx])
           done == GatheredEnough(collected, c.value) \/ c.idx = Len(c.utxos)
       IN IF ~ok THEN OverlapFinish(c, "NetworkFailure")
          ELSE OverlapGoOn([c EXCEPT !.collected = collected,
                                     !.idx = IF done THEN @ ELSE @ + 1,
                                     !.pc = NextRequest(done),
                                     !.trace = Append(@, NextRequest(done))])

\* _getTransaction of the second call after the fee estimate answered
OverlapEstimateFeeReply ==
  /\ overlap.call.pc = "estimate_fee"
  /\ \E ok \in BOOLEAN, estimate \in FeeEstimates,
        sigs0 \in [1..Len(overlap.call.collected) -> SigLens],
        sigs1 \in [1..Len(overlap.call.collected) -> SigLens] :
       LET c == overlap.call
           feeRate == ClampFeeRate(estimate)
           raw == GetRawTransaction(account, c.collected, c.value, c.to,
                                    feeRate, sigs0, sigs1)
           built == [c EXCEPT !.rate = feeRate, !.tx = raw.tx, !.fee = raw.fee]
       IN IF ~ok THEN OverlapFinish(c, "NetworkFailure")
          ELSE /\ SameSignatures(account, c.collected, c.value, c.to,
                                 feeRate, sigs0, sigs1)
               /\ IF raw.kind # "ok" THEN OverlapFinish(built, raw.kind)
                  ELSE OverlapGoOn([built EXCEPT !.pc = "broadcast",
                                                 !.trace = Append(@, "broadcast")])

\* sendTransaction of the second call after broadcastTransaction answered
OverlapBroadcastReply ==
  /\ overlap.call.pc = "broadcast"
  /\ \E ok \in BOOLEAN :
       OverlapFinish(overlap.call, IF ok THEN "ok" ELSE "NetworkFailure")

\* ------------------------------------------------------ derivation paths

\* A path string is the sequence of its segments and of the slashes
\* between them, so that joining is concatenation and an empty segment is
\* two slashes in a row or a slash at an end.
BIP_84_BTC_DERIVATION_PATH_PREFIX == <<"m", "/", "84'", "/", "0'">>

\* the decimal numeral of an index, as the template literal prints it
Numerals == <<"0", "1", "2", "3">>
IndexNumeral(index) == IF index < 0 THEN "-1" ELSE Numerals[index + 1]

\* the segments BIP-32 accepts: digits with an optional apostrophe
NumericSegments == {"0", "1", "2", "3", "0'", "1'", "44'", "84'"}

\* the paths a caller passes: relative tails, one with a leading slash, an
\* absolute one, and one with segments that are no numbers
RelativePath == <<"0'", "/", "0", "/", "1">>
OtherRelativePath == <<"1'", "/", "2", "/", "3">>
SlashPath == <<"/", "0'", "/", "0", "/", "1">>
AbsolutePath == <<"m", "/", "84'", "/", "0'", "/", "0'", "/", "0", "/", "1">>
BadPath == <<"a'", "/", "b", "/", "c">>
CallerPaths == {RelativePath, OtherRelativePath, SlashPath, AbsolutePath, BadPath}

\* config.bip: unset (0), the two documented values, and another one
UnsetBip == 0
Bips == {UnsetBip, 84, 44, 33}

\* this._path = `${BIP_84_BTC_DERIVATION_PATH_PREFIX}/${path}`: the prefix
\* is the BIP-84 one whatever config.bip is, and the caller's path is
\* appended after a slash whatever it starts with
AccountPath(path, bip) == BIP_84_BTC_DERIVATION_PATH_PREFIX \o <<"/">> \o path

\* bip32's check of a path in derivePath, /^(m\/)?(\d+'?\/)*\d+'?$/
IsBip32Path(p) ==
  LET q == IF Len(p) >= 2 /\ p[1] = "m" /\ p[2] = "/" THEN SubSeq(p, 3, Len(p)) ELSE p
  IN /\ Len(q) % 2 = 1
     /\ \A i \in DOMAIN q : IF i % 2 = 1 THEN q[i] \in NumericSegments ELSE q[i] = "/"

\* new WalletAccountBtc(seed, path, config): the account, or the error
\* derivePath throws for a path that is no BIP-32 path
Construct(seed, path, bip) ==
  LET p == AccountPath(path, bip)
  IN IF IsBip32Path(p)
       THEN [kind |-> "ok", path |-> p, heap |-> ConstructHeap(seed, p),
             account |-> ConstructAccount, electrum |-> ConstructElectrum]
       ELSE [kind |-> "InvalidPath", path |-> <<>>, heap |-> <<>>,
             account |-> ConstructAccount, electrum |-> ConstructElectrum]

\* ------------------------------------------------------- wallet manager

\* new WalletManagerBtc(seed, config): no account handed out yet.
\* accounts are the entries of the _accounts map in the order of their
\* creation: the key, and the account object with its buffers.
NewManager(seed, bip) ==
  [disposed |-> FALSE, seed |-> seed, bip |-> bip, accounts |-> <<>>]

NoManager == NewManager(1, UnsetBip)

\* the outcome of a call on the manager, on one of its accounts, or of
\* new WalletAccountBtc: the path passed, the account returned (0 for
\* none) and its path, and whether the call created it
ManagerResult(op, kind, input, id, path, fresh) ==
  [op |-> op, kind |-> kind, disposed |-> manager.disposed,
   val |-> [input |-> input, id |-> id, path |-> path, fresh |-> fresh]]

\* a variant that never finds an account in the map
CachedNever(accounts, key) == 0

\* this._accounts[key]: the position of the account cached under key, 0
\* when there is none
Cached(accounts, key) ==
  IF \E i \in DOMAIN accounts : accounts[i].key = key
    THEN CHOOSE i \in DOMAIN accounts : accounts[i].key = key
    ELSE 0

\* getAccountByPath(path), also the body of getAccount: the account cached
\* under the full path, else a new account, which is cached
AccountAt(op, via, path) ==
  LET key == AccountPath(path, manager.bip)
      hit == Cached(manager.accounts, key)
      made == Construct(manager.seed, path, manager.bip)
      entry == [key |-> key, via |-> via, path |-> made.path, heap |-> made.heap,
                account |-> made.account, electrum |-> made.electrum]
  IN IF manager.disposed
       THEN /\ result' = ManagerResult(op, "DisposedWallet", path, 0, <<>>, FALSE)
            /\ UNCHANGED manager
     ELSE IF hit # 0
       THEN /\ result' = ManagerResult(op, "ok", path, hit, manager.accounts[hit].path, FALSE)
            /\ UNCHANGED manager
     ELSE IF made.kind # "ok"
       THEN /\ result' = ManagerResult(op, made.kind, path, 0, <<>>, FALSE)
            /\ UNCHANGED manager
     ELSE /\ Len(manager.accounts) < MaxAccounts
          /\ manager' = [manager EXCEPT !.accounts = Append(@, entry)]
          /\ result' = ManagerResult(op, "ok", path, Len(manager.accounts) + 1,
                                     made.path, TRUE)

\* getAccount(index): getAccountByPath(`0'/0/${index}`)
ManagerGetAccount ==
  /\ \E index \in -1..MaxIndex :
       AccountAt("getAccount", "getAccount", <<"0'", "/", "0", "/", IndexNumeral(index)>>)
  /\ UNCHANGED <<heap, account, electrum, unspent, call, xfer, overlap>>

ManagerGetAccountByPath ==
  /\ \E path \in CallerPaths : AccountAt("getAccountByPath", "getAccountByPath", path)
  /\ UNCHANGED <<heap, account, electrum, unspent, call, xfer, overlap>>

\* getFeeRates(): the answer of the fee endpoint, or its failure
ManagerGetFeeRates ==
  /\ \E ok \in BOOLEAN :
       result' = ManagerResult("getFeeRates",
                               IF manager.disposed THEN "DisposedWallet"
                               ELSE IF ok THEN "ok" ELSE "NetworkFailure",
                               <<>>, 0, <<>>, FALSE)
  /\ UNCHANGED <<heap, account, electrum, unspent, call, xfer, manager, overlap>>

\* account.dispose() on an account the manager handed out
DisposeEntry(e) ==
  [e EXCEPT !.heap = DisposeHeap(e.heap, e.account),
            !.account = DisposeFields(e.account),
            !.electrum = ElectrumDisconnect(e.electrum)]

AccountDispose ==
  /\ \E i \in DOMAIN manager.accounts :
       LET e == manager.accounts[i]
       IN IF DisposeThrows(e.account)
            THEN /\ result' = ManagerResult("account.dispose", "TypeError", <<>>, i, e.path, FALSE)
                 /\ UNCHANGED manager
            ELSE /\ result' = ManagerResult("account.dispose", "ok", <<>>, i, e.path, FALSE)
                 /\ manager' = [manager EXCEPT !.accounts[i] = DisposeEntry(e)]
  /\ UNCHANGED <<heap, account, electrum, unspent, call, xfer, overlap>>

\* the outcome of an operation on an account the manager handed out
AccountResult(op, kind, id, arg, out) ==
  [op |-> op, kind |-> kind, disposed |-> manager.disposed,
   val |-> [id |-> id, arg |-> arg, out |-> out]]

\* this._bip32.sign(messageHash): this._bip32 is the node the constructor
\* built from the master key, not the node derivePath returned
AccountSignature(e, message) == EcdsaSign(message, e.heap[Bip32Node.D])

\* account.sign(message) on an account the manager handed out
AccountSign ==
  /\ \E i \in DOMAIN manager.accounts, m \in Messages :
       LET e == manager.accounts[i]
       IN result' = IF e.account.bip32 = NULL
                      THEN AccountResult("account.sign", "TypeError", i, m, Malformed)
                      ELSE AccountResult("account.sign", "ok", i, m, AccountSignature(e, m))
  /\ UNCHANGED <<heap, account, electrum, unspent, call, xfer, manager, overlap>>

\* account.verify(message, signature) with a signature one of the
\* manager's accounts gave for some message
AccountVerify ==
  /\ \E i, j \in DOMAIN manager.accounts, m \in Messages, signed \in Messages :
       LET e == manager.accounts[i]
           sig == AccountSignature(manager.accounts[j], signed)
           arg == [message |-> m, signed |-> signed, by |-> j]
       IN /\ manager.accounts[j].account.bip32 # NULL
          /\ result' = IF e.account.bip32 = NULL
                         THEN AccountResult("account.verify", "TypeError", i, arg, FALSE)
                         ELSE AccountResult("account.verify", "ok", i, arg,
                                            EcdsaVerify(m, sig, e.heap[Bip32Node.Q]))
  /\ UNCHANGED <<heap, account, electrum, unspent, call, xfer, manager, overlap>>

\* account.keyPair: the bytes the caller reads through the returned object
AccountKeyPair ==
  /\ \E i \in DOMAIN manager.accounts :
       LET e == manager.accounts[i]
       IN result' = AccountResult("account.keyPair", "ok", i, <<>>,
                                  [publicKey |-> e.heap[e.account.keyPair.publicKey],
                                   privateKey |-> e.heap[e.account.keyPair.privateKey]])
  /\ UNCHANGED <<heap, account, electrum, unspent, call, xfer, manager, overlap>>

\* the accounts after account.dispose() was called on them in order, up to
\* the first call that throws
RECURSIVE DisposeAll(_, _)
DisposeAll(accounts, i) ==
  IF i > Len(accounts) \/ DisposeThrows(accounts[i].account) THEN accounts
  ELSE DisposeAll([accounts EXCEPT ![i] = DisposeEntry(accounts[i])], i + 1)

\* dispose() of the manager: dispose() of every account of the map; a
\* disposed manager has nothing left to do
ManagerDispose ==
  /\ IF manager.disposed
       THEN /\ result' = ManagerResult("manager.dispose", "ok", <<>>, 0, <<>>, FALSE)
            /\ UNCHANGED manager
     ELSE IF \E i \in DOMAIN manager.accounts : DisposeThrows(manager.accounts[i].account)
       THEN /\ result' = ManagerResult("manager.dispose", "TypeError", <<>>, 0, <<>>, FALSE)
            /\ manager' = [manager EXCEPT !.accounts = DisposeAll(@, 1)]
     ELSE /\ result' = ManagerResult("manager.dispose", "ok", <<>>, 0, <<>>, FALSE)
          /\ manager' = [manager EXCEPT !.accounts = DisposeAll(@, 1), !.disposed = TRUE]
  /\ UNCHANGED <<heap, account, electrum, unspent, call, xfer, overlap>>

\* new WalletAccountBtc(seed, path, config), called directly
NewAccount ==
  /\ \E path \in CallerPaths :
       LET made == Construct(manager.seed, path, manager.bip)
       IN result' = ManagerResult("new", made.kind, path, 0, made.path, made.kind = "ok")
  /\ UNCHANGED <<heap, account, electrum, unspent, call, xfer, manager, overlap>>

\* ---------------------------------------- getTransfers: the server's data

\* The repository holds two revisions of the read-only account, which the
\* full account extends: src/wallet-account-read-only-btc.js and an
\* unnamed one.  The build runs one of them.
RevNamed == "wallet-account-read-only-btc.js"
RevUnnamed == "part_005"
Revisions == {RevNamed, RevUnnamed}

Directions == {"all", "incoming", "outgoing"}

\* a foreign address that is not a P2WPKH one
LegacyAddress == "legacy"

TxIn(txid, index) == [txid |-> txid, index |-> index]
TxOut(script, value) == [script |-> script, value |-> value]

\* The transactions the server knows.  x0 is foreign; f1 and f2 fund the
\* account's address (f1 with two outputs, f2 next to a payment to a legacy
\* address); s1 spends both outputs of f1 and returns change; s2 spends the
\* output of f2 and the change of s1 without change.
Chain ==
  [t \in {"x0", "f1", "f2", "s1", "s2"} |->
     CASE t = "x0" -> [ins |-> <<>>,
                       outs |-> <<TxOut("other", 5000), TxOut("other", 5000)>>]
       [] t = "f1" -> [ins |-> <<TxIn("x0", 0)>>,
                       outs |-> <<TxOut(OwnAddress, 1000), TxOut(OwnAddress, 2000)>>]
       [] t = "f2" -> [ins |-> <<TxIn("x0", 1)>>,
                       outs |-> <<TxOut(LegacyAddress, 300), TxOut(OwnAddress, 700)>>]
       [] t = "s1" -> [ins |-> <<TxIn("f1", 0), TxIn("f1", 1)>>,
                       outs |-> <<TxOut("other", 2500), TxOut(OwnAddress, 359)>>]
       [] t = "s2" -> [ins |-> <<TxIn("f2", 1), TxIn("s1", 1)>>,
                       outs |-> <<TxOut("other", 900)>>]]

\* the transactions that touch the account's address, oldest first: what
\* get_history returns is a prefix of it
Story == <<"f1", "f2", "s1", "s2">>

Histories == {SubSeq(Story, 1, n) : n \in 0..(IF MaxHistory < Len(Story) THEN MaxHistory ELSE Len(Story))}

\* prevTx.outs[input.index]
PrevOut(input) == Chain[input.txid].outs[input.index + 1]

\* payments.p2wpkh({ output: script }) decodes a script or throws
IsP2wpkh(script) == script \in {OwnAddress, "other"}

\* the fee of a record: null, or a number of satoshis
FeeNull == [null |-> TRUE, sats |-> 0]
FeeOf(sats) == [null |-> FALSE, sats |-> sats]

\* ------------------------------------------ getTransfers: the loop body

\* a variant that reports change as an outgoing transfer
DirectionTypeChangeOutgoing(toSelf, outgoing) ==
  IF toSelf /\ ~outgoing THEN "incoming"
  ELSE IF outgoing THEN "outgoing"
  ELSE "none"

\* let directionType = ...: "none" stands for the outputs that are skipped
DirectionType(toSelf, outgoing) ==
  IF toSelf /\ ~outgoing THEN "incoming"
  ELSE IF ~toSelf /\ outgoing THEN "outgoing"
  ELSE IF toSelf /\ outgoing THEN "change"
  ELSE "none"

\* if (directionType === 'change') continue
\* if (direction !== 'all' && direction !== directionType) continue
Reported(direction, directionType) ==
  /\ directionType \in {"incoming", "outgoing"}
  /\ direction = "all" \/ direction = directionType

\* a variant that lets one record more through
LimitReachedLate(transfers, limit) == Len(transfers) > limit

\* if (transfers.length >= limit) break
LimitReached(transfers, limit) == Len(transfers) >= limit

\* a variant that skips nothing
SliceFromStart(history, skip) == history

\* history.slice(skip)
SliceFrom(history, skip) ==
  IF skip >= Len(history) THEN <<>> ELSE SubSeq(history, skip + 1, Len(history))

\* totalInput: the inputs whose previous output was not resolved add nothing
TotalInput(tx, resolved) ==
  SumSeq([i \in DOMAIN tx.ins |-> IF resolved[i] THEN PrevOut(tx.ins[i]).value ELSE 0])

\* tx.outs.reduce((sum, o) => sum + o.value, 0)
TotalOutput(tx) == SumValues(tx.outs)

\* const fee = totalInput > 0 ? totalInput - totalOutput : null
Fee(totalInput, totalOutput) ==
  IF totalInput > 0 THEN FeeOf(totalInput - totalOutput) ELSE FeeNull

\* The loop over the outputs of one history transaction: acc.transfers are
\* the records so far, acc.thrown tells that decoding an output threw (the
\* named revision decodes every output as P2WPKH outside of any try).
\* ctx.missing is not a field of the program's record: it remembers that
\* the previous transaction of some input was not fetched.
RECURSIVE ScanOutputs(_, _, _, _, _, _)
ScanOutputs(rev, opts, txid, vout, ctx, acc) ==
  LET outs == Chain[txid].outs
  IN IF vout >= Len(outs) THEN acc
     ELSE LET out == outs[vout + 1]
              toSelf == out.script = OwnAddress
              directionType == DirectionType(toSelf, ctx.outgoing)
              record == [txid |-> txid, vout |-> vout, value |-> out.value,
                         direction |-> directionType, recipient |-> out.script,
                         fee |-> ctx.fee, missing |-> ctx.missing]
          IN IF rev = RevNamed /\ ~IsP2wpkh(out.script)
               THEN [acc EXCEPT !.thrown = TRUE]
             ELSE IF ~Reported(opts.direction, directionType)
               THEN ScanOutputs(rev, opts, txid, vout + 1, ctx, acc)
             ELSE IF LimitReached(acc.transfers, opts.limit)
               THEN acc
             ELSE ScanOutputs(rev, opts, txid, vout + 1, ctx,
                              [acc EXCEPT !.transfers = Append(@, record)])

\* ------------------------------------------------ getTransfers: the call

\* what the caller holds of the getTransfers call made before the current
\* one: its options and the txid of the first record it returned ("none"
\* when it threw or returned no record)
NoBefore == [direction |-> "all", limit |-> 0, skip |-> 0, first |-> "none"]

Returned(x) ==
  [direction |-> x.direction, limit |-> x.limit, skip |-> x.skip,
   first |-> IF x.kind = "ok" /\ x.transfers # <<>>
             THEN x.transfers[1].txid ELSE "none"]

\* no getTransfers call was made yet: the revision the build runs and the
\* history the server holds are all there is
IdleTransfers(rev, server) ==
  [pc |-> "idle", rev |-> rev, server |-> server, before |-> NoBefore,
   direction |-> "all", limit |-> 0, skip |-> 0,
   items |-> <<>>, pos |-> 0, transfers |-> <<>>,
   cache |-> {}, fetches |-> <<>>, failed |-> {},
   kind |-> "none", failedAt |-> "none"]

\* the call ends: it returns the transfers or throws
TransfersEnd(x, kind, failedAt) ==
  [x EXCEPT !.pc = "done", !.kind = kind, !.failedAt = failedAt]

\* the batches of get_transaction requests that fetch xs one after another
OneByOne(xs) == [i \in DOMAIN xs |-> <<xs[i]>>]

\* the first input whose previous output, fetched and decoded, pays the
\* account's address; 0 when there is none
FirstOwnInput(tx, ok) ==
  LET own == {i \in DOMAIN tx.ins : ok[i] /\ PrevOut(tx.ins[i]).script = OwnAddress}
  IN IF own = {} THEN 0 ELSE CHOOSE i \in own : \A j \in own : i <= j

\* One pass of the loop of the named revision over history item x.pos.
\* okTx: get_transaction of the item answered; ok1[i]: so did the one of
\* input i in getInputValue; ok2[i]: and the one in isOutgoingTx.
ItemNamed(x, okTx, ok1, ok2) ==
  LET txid == x.items[x.pos]
      tx == Chain[txid]
      parents == [i \in DOMAIN tx.ins |-> tx.ins[i].txid]
      first == FirstOwnInput(tx, ok2)
      asked2 == IF first = 0 THEN parents ELSE SubSeq(parents, 1, first)
      fetches == x.fetches \o <<<<txid>>>> \o OneByOne(parents) \o OneByOne(asked2)
      ctx == [outgoing |-> first # 0,
              fee |-> Fee(TotalInput(tx, ok1), TotalOutput(tx)),
              missing |-> \E i \in DOMAIN ok1 : ~ok1[i]]
      acc == ScanOutputs(RevNamed, x, txid, 0, ctx,
                         [transfers |-> x.transfers, thrown |-> FALSE])
  IN IF ~okTx
       THEN TransfersEnd([x EXCEPT !.fetches = Append(@, <<txid>>)],
                         "NetworkFailure", "get_transaction")
     ELSE IF acc.thrown
       THEN TransfersEnd([x EXCEPT !.fetches = fetches], "TypeError", "decode")
     ELSE [x EXCEPT !.fetches = fetches, !.transfers = acc.transfers, !.pos = @ + 1]

\* the subsequence of xs at the positions in keep
RECURSIVE Keep(_, _, _)
Keep(xs, keep, i) ==
  IF i > Len(xs) THEN <<>>
  ELSE (IF i \in keep THEN <<xs[i]>> ELSE <<>>) \o Keep(xs, keep, i + 1)

\* One pass of the loop of the unnamed revision over history item x.pos.
\* okTx: get_transaction of the item answered (it is asked when the item is
\* not in txCache); okIn[i]: so did the one of input i, which Promise.all
\* asks together with the others for every input not in txCache.
ItemUnnamed(x, okTx, okIn) ==
  LET txid == x.items[x.pos]
      tx == Chain[txid]
      askTx == txid \notin x.cache
      cache1 == x.cache \cup {txid}
      parents == [i \in DOMAIN tx.ins |-> tx.ins[i].txid]
      asked == {i \in DOMAIN tx.ins : parents[i] \notin cache1}
      resolved == [i \in DOMAIN tx.ins |-> i \notin asked \/ okIn[i]]
      cache2 == cache1 \cup {parents[i] : i \in {j \in asked : okIn[j]}}
      batch == Keep(parents, asked, 1)
      fetches == x.fetches \o (IF askTx THEN <<<<txid>>>> ELSE <<>>)
                           \o (IF batch = <<>> THEN <<>> ELSE <<batch>>)
      ctx == [outgoing |-> \E i \in DOMAIN tx.ins :
                              resolved[i] /\ PrevOut(tx.ins[i]).script = OwnAddress,
              fee |-> Fee(TotalInput(tx, resolved), TotalOutput(tx)),
              missing |-> \E i \in DOMAIN tx.ins : ~resolved[i]]
      acc == ScanOutputs(RevUnnamed, x, txid, 0, ctx,
                         [transfers |-> x.transfers, thrown |-> FALSE])
  IN IF askTx /\ ~okTx
       THEN [x EXCEPT !.fetches = Append(@, <<txid>>), !.failed = @ \cup {txid},
                      !.pos = @ + 1]
     ELSE [x EXCEPT !.fetches = fetches, !.cache = cache2,
                    !.transfers = acc.transfers, !.pos = @ + 1]

\* getTransfers(options) up to its first Electrum request, get_history
StartTransfers ==
  /\ xfer.pc \in {"idle", "done"}
  /\ \E direction \in Directions, limit \in 0..MaxLimit, skip \in 0..MaxSkip :
       xfer' = [IdleTransfers(xfer.rev, xfer.server) EXCEPT
                  !.pc = "get_history", !.direction = direction,
                  !.limit = limit, !.skip = skip,
                  !.before = IF xfer.pc = "done" THEN Returned(xfer) ELSE NoBefore]
  /\ UNCHANGED <<heap, account, electrum, unspent, call, result, manager, overlap>>

\* get_history answers or fails
HistoryReply ==
  /\ xfer.pc = "get_history"
  /\ \E ok \in BOOLEAN :
       xfer' = IF ok THEN [xfer EXCEPT !.pc = "loop", !.pos = 1,
                                       !.items = SliceFrom(xfer.server, xfer.skip)]
               ELSE TransfersEnd(xfer, "NetworkFailure", "get_history")
  /\ UNCHANGED <<heap, account, electrum, unspent, call, result, manager, overlap>>

\* for (const item of history.slice(skip)) { if (transfers.length >= limit) break
InLoop == /\ xfer.pc = "loop"
          /\ xfer.pos <= Len(xfer.items)
          /\ ~LimitReached(xfer.transfers, xfer.limit)

TransfersItemNamed ==
  /\ InLoop
  /\ xfer.rev = RevNamed
  /\ LET ins == DOMAIN Chain[xfer.items[xfer.pos]].ins
     IN \E okTx \in BOOLEAN, ok1 \in [ins -> BOOLEAN], ok2 \in [ins -> BOOLEAN] :
          xfer' = ItemNamed(xfer, okTx, ok1, ok2)
  /\ UNCHANGED <<heap, account, electrum, unspent, call, result, manager, overlap>>

TransfersItemUnnamed ==
  /\ InLoop
  /\ xfer.rev = RevUnnamed
  /\ LET ins == DOMAIN Chain[xfer.items[xfer.pos]].ins
     IN \E okTx \in BOOLEAN, okIn \in [ins -> BOOLEAN] :
          xfer' = ItemUnnamed(xfer, okTx, okIn)
  /\ UNCHANGED <<heap, account, electrum, unspent, call, result, manager, overlap>>

\* the loop ends: return transfers
TransfersReturn ==
  /\ xfer.pc = "loop"
  /\ ~InLoop
  /\ xfer' = TransfersEnd(xfer, "ok", "none")
  /\ UNCHANGED <<heap, account, electrum, unspent, call, result, manager, overlap>>

\* a read-only account of either revision, watching the account's address
\* on a server that holds some history
InitTransfers ==
  /\ heap = <<>>
  /\ account = [address |-> OwnAddress]
  /\ electrum = ConstructElectrum
  /\ unspent = <<>>
  /\ call = NoCall
  /\ result = NoResult
  /\ manager = NoManager
  /\ overlap = NoOverlap
  /\ \E rev \in Revisions, server \in Histories : xfer = IdleTransfers(rev, server)

NextTransfers ==
  \/ StartTransfers
  \/ HistoryReply
  \/ TransfersItemNamed
  \/ TransfersItemUnnamed
  \/ TransfersReturn

SpecTransfers == InitTransfers /\ [][NextTransfers]_vars

\* a manager over some seed and configuration, with no account yet
InitManager ==
  /\ heap = <<>>
  /\ account = [address |-> OwnAddress]
  /\ electrum = ConstructElectrum
  /\ unspent = <<>>
  /\ call = NoCall
  /\ result = NoResult
  /\ xfer = IdleTransfers(RevNamed, <<>>)
  /\ \E seed \in Seeds, bip \in Bips : manager = NewManager(seed, bip)
  /\ overlap = NoOverlap

NextManager ==
  \/ ManagerGetAccount
  \/ ManagerGetAccountByPath
  \/ ManagerGetFeeRates
  \/ ManagerDispose
  \/ AccountDispose
  \/ AccountSign
  \/ AccountVerify
  \/ AccountKeyPair
  \/ NewAccount

SpecManager == InitManager /\ [][NextManager]_vars

Init ==
  /\ \E seed \in Seeds : heap = ConstructHeap(seed, AccountPath(RelativePath, UnsetBip))
  /\ account = ConstructAccount
  /\ electrum = ConstructElectrum
  /\ \E vs \in SeqsUpTo(UtxoValues, MaxUtxos) :
       unspent = [i \in DOMAIN vs |-> [pos |-> i, value |-> vs[i]]]
  /\ call = NoCall
  /\ result = NoResult
  /\ xfer = IdleTransfers(RevNamed, <<>>)
  /\ manager = NoManager
  /\ overlap = NoOverlap

Next ==
  \/ Dispose
  \/ GetAddress
  \/ KeyPair
  \/ Sign
  \/ Verify
  \/ GetBalance
  \/ StartTransaction
  \/ ListUnspentReply
  \/ GetTransactionReply
  \/ EstimateFeeReply
  \/ BroadcastReply

Spec == Init /\ [][Next]_vars

\* the account of Spec with two callers of sendTransaction, each of which
\* calls once
InitOverlap == Init

FirstStart ==
  /\ overlap = NoOverlap
  /\ result = NoResult
  /\ StartTransaction
  /\ call'.op = "sendTransaction"

NextOverlap ==
  \/ FirstStart
  \/ ListUnspentReply
  \/ GetTransactionReply
  \/ EstimateFeeReply
  \/ BroadcastReply
  \/ OverlapStart
  \/ OverlapListUnspentReply
  \/ OverlapGetTransactionReply
  \/ OverlapEstimateFeeReply
  \/ OverlapBroadcastReply

SpecOverlap == InitOverlap /\ [][NextOverlap]_vars
\* =================================================================
\* Properties
\* =================================================================

TxOps == {"sendTransaction", "quoteSendTransaction"}

\* a sendTransaction / quoteSendTransaction call has completed
TxDone == result.op \in TxOps

\* ... and has returned a result
TxOk == TxDone /\ result.kind = "ok"

\* sum(inputs) - value - fee of the completed call
ResultChange == SumValues(result.val.tx.ins) - result.val.value - result.val.fee

\* the output the caller asked for
Requested == [address |-> result.val.to, value |-> result.val.value]

\* C1: after dispose() every other public operation fails with a
\* DisposedAccount error and none returns normally.
C1_PostDisposeFails ==
  (result.op \notin {"none", "dispose"} /\ result.disposed)
    => result.kind = "DisposedAccount"

\* C2: dispose() on an already disposed account completes without error and
\* leaves the account disposed.
C2_DisposeIdempotent ==
  (result.op = "dispose" /\ result.disposed) => (result.kind = "ok" /\ Disposed)

C4_DustFirst ==
  (TxDone /\ result.val.value <= DUST_LIMIT) => result.kind = "BelowDustLimit"

\* the fee of a transaction spending the first k listed UTXOs, and whether
\* those cover value + fee
PrefixCovers(k) ==
  LET prefix == SubSeq(result.val.utxos, 1, k)
      p0 == CreatePsbt(ConstructAccount, prefix, result.val.value, result.val.to,
                       0, [i \in 1..k |-> 71])
  IN /\ p0.kind = "ok"
     /\ SumValues(prefix) >= result.val.value + EstimatedFee(result.val.rate, p0.tx)

\* C5: the builder fails with InsufficientBalance only when no prefix of the
\* server-ordered UTXO list, the whole list included, covers value + fee.
C5_ExpandsSelection ==
  (TxDone /\ ~result.disposed /\ result.kind = "InsufficientBalance")
    => ~ \E k \in 1..Len(result.val.utxos) : PrefixCovers(k)

\* C6: a call that returns has selected inputs worth at least value + the
\* returned fee, and a call that fails with InsufficientBalance has not.
C6_InputsCoverValuePlusFee ==
  /\ TxOk => SumValues(result.val.tx.ins) >= result.val.value + result.val.fee
  /\ (TxDone /\ result.kind = "InsufficientBalance")
       => SumValues(result.val.collected) < result.val.value + result.val.fee

C6_Witness ==
  /\ TxOk /\ result.op = "sendTransaction"
  /\ SumValues(result.val.tx.ins) = 700 /\ result.val.value = 547

\* C7: a built transaction pays the requested value to the recipient in its
\* first output, has a second output exactly when the change exceeds the
\* dust limit, and that output pays exactly the change to the own address.
C7_OutputShape ==
  TxOk =>
    LET outs == result.val.tx.outs
    IN /\ Len(outs) \in {1, 2}
       /\ outs[1] = Requested
       /\ (Len(outs) = 2) <=> (ResultChange > DUST_LIMIT)
       /\ Len(outs) = 2 => outs[2] = [address |-> OwnAddress, value |-> ResultChange]
       /\ \A i \in 2..Len(outs) : outs[i].value > DUST_LIMIT

C7_Witness ==
  /\ TxOk /\ Len(result.val.tx.outs) = 2
  /\ result.val.tx.outs[2].value = 600

\* C8: the returned fee is the fee the built transaction pays,
\* sum(inputs) - sum(outputs).
C8_ReturnedFeeIsPaidFee ==
  TxOk => result.val.fee = SumValues(result.val.tx.ins) - SumValues(result.val.tx.outs)

\* C9: the returned fee is at least max(141, vsize * rate) for the virtual
\* size of the transaction that is returned.
C9_FeeCoversFinalSize ==
  TxOk => result.val.fee >= MaxOf(MIN_FEE, result.val.rate * VirtualSize(result.val.tx))

\* the outputs of the built transaction that equal (to, value)
RequestedOutputs ==
  {i \in DOMAIN result.val.tx.outs : result.val.tx.outs[i] = Requested}

\* C10 as stated: the broadcast transaction holds exactly one output equal to
\* (to, value), the own address as recipient included.
C10_ExactlyOneRequested ==
  (TxOk /\ result.op = "sendTransaction") => Cardinality(RequestedOutputs) = 1

\* C10 as amended: the first output equals (to, value), and no other output
\* does unless the recipient is the own address and the change equals value:
\* then the change output is a second one.
C10_RequestedFirst ==
  (TxOk /\ result.op = "sendTransaction") =>
    /\ 1 \in RequestedOutputs
    /\ RequestedOutputs =
         IF result.val.to = OwnAddress /\ ResultChange = result.val.value
           THEN {1, 2} ELSE {1}

C10_Witness ==
  /\ TxOk /\ result.op = "sendTransaction"
  /\ result.val.to = OwnAddress
  /\ Len(result.val.tx.outs) = 2
  /\ ResultChange # result.val.value

\* ---------------------------------------------------------------- C11

\* the Electrum requests of the call in progress or of the call that ended
Trace == IF call.pc # "idle" THEN call.trace
         ELSE IF result.op \in TxOps THEN result.val.trace ELSE <<>>

\* the transaction built by the call in progress or the call that ended
Built == IF call.pc # "idle" THEN call.tx
         ELSE IF result.op \in TxOps THEN result.val.tx ELSE NoTx

\* the UTXOs whose previous transaction the call has fetched so far
Gathered == IF call.pc # "idle" THEN call.collected
            ELSE IF result.op \in TxOps THEN result.val.collected ELSE <<>>

RequestRank(r) == CASE r = "list_unspent" -> 1
                    [] r = "get_transaction" -> 2
                    [] r = "estimate_fee" -> 3
                    [] r = "broadcast" -> 4

Range(t) == {t[i] : i \in DOMAIN t}

CountOf(t, r) == Cardinality({i \in DOMAIN t : t[i] = r})

\* C11: within one sendTransaction the Electrum requests go out in the
\* order list_unspent, get_transaction (one per selected UTXO), broadcast;
\* broadcast is the last request, is issued at most once, and only after
\* the transaction was built and signed, so that a call that fails earlier
\* has published nothing.
C11_RequestOrder ==
  LET t == Trace
  IN /\ \A i, j \in DOMAIN t :
          i < j => /\ RequestRank(t[i]) <= RequestRank(t[j])
                   /\ (t[i] = t[j] => t[i] = "get_transaction")
     /\ (t # <<>> => t[1] = "list_unspent")
     /\ CountOf(t, "broadcast") <= 1
     /\ ("broadcast" \in Range(t) =>
           /\ t[Len(t)] = "broadcast"
           /\ Built # NoTx
           /\ CountOf(t, "get_transaction") = Len(Gathered)
           /\ IF call.pc # "idle" THEN call.op = "sendTransaction"
              ELSE result.op = "sendTransaction")
     /\ (call.pc = "idle" /\ result.op = "sendTransaction" /\ result.val.tx = NoTx
           => "broadcast" \notin Range(t))

\* a send that fetched two previous transactions and then broadcast
C11_Witness ==
  /\ result.op = "sendTransaction"
  /\ result.kind = "ok"
  /\ result.val.trace = <<"list_unspent", "get_transaction", "get_transaction",
                          "estimate_fee", "broadcast">>

\* ------------------------------------------------------------ C12..C16

Records == {xfer.transfers[i] : i \in DOMAIN xfer.transfers}

TransfersOk == xfer.pc = "done" /\ xfer.kind = "ok"

\* the position of a transaction in the history the server holds
HistoryIndex(txid) == CHOOSE i \in DOMAIN xfer.server : xfer.server[i] = txid

\* C12: every record of getTransfers has direction incoming or outgoing,
\* never change; the output at its vout pays the account's own address
\* exactly when its direction is incoming; and when a direction filter
\* other than all is given, every record has that direction.
C12_Directions ==
  \A r \in Records :
    /\ r.direction \in {"incoming", "outgoing"}
    /\ (Chain[r.txid].outs[r.vout + 1].script = OwnAddress) <=> (r.direction = "incoming")
    /\ (xfer.direction # "all" => r.direction = xfer.direction)

\* an unfiltered call that classified one output as incoming and another
\* as outgoing and dropped the change of the spending transaction
C12_Witness ==
  /\ TransfersOk
  /\ xfer.direction = "all"
  /\ \E r \in Records : r.direction = "incoming"
  /\ \E r \in Records : r.direction = "outgoing" /\ r.txid = "s1"
  /\ \A r \in Records : ~(r.txid = "s1" /\ r.vout = 1)

\* C13: getTransfers never holds more than limit records, and with limit 0
\* it returns no record and asks for no transaction.
C13_Limit ==
  /\ Len(xfer.transfers) <= xfer.limit
  /\ (xfer.limit = 0 => xfer.transfers = <<>> /\ xfer.fetches = <<>>)

\* a call with limit 1 that stopped between the two outputs of f1
C13_Witness ==
  /\ TransfersOk
  /\ xfer.limit = 1
  /\ xfer.skip = 0
  /\ xfer.direction = "all"
  /\ xfer.transfers # <<>>
  /\ xfer.transfers[1].txid = "f1"
  /\ xfer.transfers[1].vout = 0

\* the history transactions none of whose inputs spends an output of the
\* account: their outputs to the account are incoming whatever is fetched
Funding(txid) ==
  \A i \in DOMAIN Chain[txid].ins : PrevOut(Chain[txid].ins[i]).script # OwnAddress

FullFee(txid) ==
  FeeOf(SumSeq([i \in DOMAIN Chain[txid].ins |-> PrevOut(Chain[txid].ins[i]).value])
          - TotalOutput(Chain[txid]))

\* C15: the fee of a record is null whenever the previous transaction of at
\* least one input of its transaction was not fetched, and it is total
\* input minus total output when all of them were.
C15_FeeNullWhenMissing ==
  \A r \in Records :
    IF r.missing THEN r.fee = FeeNull ELSE r.fee = FullFee(r.txid)

\* C16: once get_history has answered, no failing get_transaction makes
\* getTransfers fail.
C16_ToleratesFetchFailures ==
  xfer.pc = "done" => xfer.failedAt # "get_transaction"

\* ------------------------------------------------------------ C17..C20

AccountOps == {"getAccount", "getAccountByPath"}

\* the account was disposed of: its fields are nulled, its key is wiped
EntryDisposed(e) == e.account.bip32 = NULL /\ IsZero(e.heap["priv"])

C18_ManagerDispose ==
  /\ result.op = "manager.dispose" =>
       /\ result.kind = "ok"
       /\ manager.disposed
       /\ \A i \in DOMAIN manager.accounts : EntryDisposed(manager.accounts[i])
  /\ (result.op \in AccountOps \cup {"getFeeRates"} /\ result.disposed) =>
       result.kind = "DisposedWallet"

\* the base path config.bip selects
PurposePrefix(bip) ==
  IF bip = 44 THEN <<"m", "/", "44'", "/", "0'">> ELSE <<"m", "/", "84'", "/", "0'">>

\* the full path of a caller's path: an absolute path as it is, a path
\* with a leading slash appended to the base, a relative tail appended
\* after a slash
ExpectedPath(path, bip) ==
  IF Len(path) >= 2 /\ path[1] = "m" /\ path[2] = "/" THEN path
  ELSE IF path # <<>> /\ path[1] = "/" THEN PurposePrefix(bip) \o path
  ELSE PurposePrefix(bip) \o <<"/">> \o path

ConstructOps == AccountOps \cup {"new"}

\* C19: with the default base, the path of an account is the base, a
\* slash and the caller's relative tail; a tail with a leading slash is
\* appended without an empty segment; an absolute path is used as it is;
\* getAccount(i) gives the base followed by /0'/0/i.
C19_PathAssembly ==
  (/\ result.op \in ConstructOps
   /\ ~result.disposed
   /\ manager.bip \in {UnsetBip, 84}
   /\ IsBip32Path(ExpectedPath(result.val.input, manager.bip)))
    => /\ result.kind = "ok"
       /\ result.val.path = ExpectedPath(result.val.input, manager.bip)

\* C20: config.bip selects the purpose of the base path: m/84'/0' for 84
\* or when unset, m/44'/0' for 44; any other value makes the construction
\* fail with UnsupportedBip.
C20_BipSelectsPurpose ==
  (result.op \in ConstructOps /\ ~result.disposed) =>
    IF manager.bip \notin {UnsetBip, 84, 44}
      THEN result.kind = "UnsupportedBip"
      ELSE result.kind = "ok" =>
             SubSeq(result.val.path, 1, 5) = PurposePrefix(manager.bip)

\* ------------------------------------------------------------ C21, C22

\* the accounts of the manager that were not disposed of
Live == {i \in DOMAIN manager.accounts : manager.accounts[i].account.bip32 # NULL}

\* the master private key and chain code of the manager's seed
MasterKey == Slice(HmacSha512(manager.seed), 1, KeyLen)
MasterChainCode == Slice(HmacSha512(manager.seed), KeyLen + 1, 2 * KeyLen)

\* the private key derived at the path of an account
DerivedKey(e) == DerivePath(MasterKey, MasterChainCode, e.path)

\* C21: sign(message) signs with the private key derived at the account's
\* path: the signature verifies under the account's keyPair.publicKey,
\* verify(message, sign(message)) is true, verify(other, sign(message)) is
\* false, and two accounts at different paths of one seed give different
\* signatures for the same message.
C21_SignsWithDerivedKey ==
  /\ (result.op = "account.sign" /\ result.kind = "ok") =>
       LET e == manager.accounts[result.val.id]
       IN EcdsaVerify(result.val.arg, result.val.out, e.heap[e.account.keyPair.publicKey])
  /\ (result.op = "account.verify" /\ result.kind = "ok"
        /\ result.val.arg.by = result.val.id) =>
       result.val.out = (result.val.arg.message = result.val.arg.signed)
  /\ \A i, j \in Live, m \in Messages :
       i # j => AccountSignature(manager.accounts[i], m)
                  # AccountSignature(manager.accounts[j], m)

\* C22: the keyPair of an account is the key pair derived at its path:
\* privateKey is the derived private key, publicKey is its public key, and
\* no account exposes the master private key.
C22_KeyPairIsDerived ==
  (result.op = "account.keyPair" /\ result.val.id \in Live) =>
    LET e == manager.accounts[result.val.id]
    IN /\ result.val.out.privateKey = DerivedKey(e)
       /\ result.val.out.publicKey = PubOf(result.val.out.privateKey)
       /\ result.val.out.privateKey # MasterKey

\* ---------------------------------------------------------------- C23

\* a quote of the full account that got every Electrum answer it asked
\* for, on an account that was not disposed of
QuoteAnswered ==
  /\ call.pc = "idle"
  /\ result.op = "quoteSendTransaction"
  /\ result.kind \in {"ok", "BelowDustLimit", "NoUnspentOutputs",
                      "InsufficientBalance", "InvalidRecipient"}

\* C23: for the same address, UTXO list, fee estimate and (to, value), the
\* quote of the read-only account and the quote of the full account fail
\* with the same kind of error or return the same fee.
C23_QuotesAgree ==
  QuoteAnswered =>
    LET readOnly == EstimateFee(result.val.utxos, result.val.to, result.val.value,
                                result.val.rate)
    IN /\ readOnly.kind = result.kind
       /\ (result.kind = "ok" => readOnly.fee = result.val.fee)

\* ------------------------------------------------------------ C24, C25

\* the get_transaction requests of the call, in the order they went out
RECURSIVE Flatten(_)
Flatten(batches) == IF batches = <<>> THEN <<>> ELSE batches[1] \o Flatten(Tail(batches))

\* C24: within one getTransfers call get_transaction is issued at most
\* once for every txid.
C24_FetchedOnce ==
  LET asked == Flatten(xfer.fetches)
  IN \A i, j \in DOMAIN asked : i # j => asked[i] # asked[j]

\* the records are in history order, those of one transaction in vout order
RecordsInOrder ==
  \A i, j \in DOMAIN xfer.transfers :
    i < j => LET a == xfer.transfers[i]
                 b == xfer.transfers[j]
             IN \/ HistoryIndex(a.txid) < HistoryIndex(b.txid)
                \/ (a.txid = b.txid /\ a.vout < b.vout)

\* C25: getTransfers resolves the inputs of a transaction one at a time,
\* so that at most one get_transaction request is outstanding at any
\* moment, and it emits the records in history order, the outputs of a
\* transaction in vout order.
C25_OneAtATime ==
  /\ \A i \in DOMAIN xfer.fetches : Len(xfer.fetches[i]) <= 1
  /\ RecordsInOrder

\* ---------------------------------------------------------------- C26

\* the list list_unspent returned to the call in progress or the call
\* that ended, and the value it was asked to send
Listed == IF call.pc # "idle" THEN call.utxos
          ELSE IF result.op \in TxOps THEN result.val.utxos ELSE <<>>

Asked == IF call.pc # "idle" THEN call.value
         ELSE IF result.op \in TxOps THEN result.val.value ELSE 0

\* C26: the selected inputs are the shortest prefix of the list returned
\* by list_unspent whose values sum up to the value to send, the whole
\* list when no prefix does; get_transaction is issued once for each
\* selected UTXO and for no other; an empty list fails with
\* NoUnspentOutputs.
C26_FirstFit ==
  LET sent == CountOf(Trace, "get_transaction")
  IN /\ Gathered = SubSeq(Listed, 1, Len(Gathered))
     /\ \A k \in 1..(Len(Gathered) - 1) : SumValues(SubSeq(Listed, 1, k)) < Asked
     /\ ("estimate_fee" \in Range(Trace) =>
           /\ SumValues(Gathered) >= Asked \/ Gathered = Listed
           /\ sent = Len(Gathered))
     /\ sent \in {Len(Gathered), Len(Gathered) + 1}
     /\ (sent = Len(Gathered) + 1 =>
           /\ Len(Gathered) < Len(Listed)
           /\ SumValues(Gathered) < Asked
           /\ call.pc = "get_transaction" \/ result.kind = "NetworkFailure")
     /\ (call.pc = "idle" /\ result.op \in TxOps /\ result.kind = "NoUnspentOutputs") =>
           (unspent = <<>> /\ sent = 0)
     /\ (call.pc = "idle" /\ result.op \in TxOps /\ unspent = <<>>) =>
           result.kind \in {"NoUnspentOutputs", "NetworkFailure"}

\* a send that took the first of two UTXOs and fetched that one alone
C26_Witness ==
  /\ result.op = "sendTransaction"
  /\ result.kind = "ok"
  /\ Len(result.val.utxos) = 2
  /\ Len(result.val.collected) = 1
  /\ CountOf(result.val.trace, "get_transaction") = 1

\* ---------------------------------------------------------------- C27

\* getTransfers({ limit: 1, skip: 1 }) returned a record after
\* getTransfers({ limit: 1 }) returned one from the same history
PagesReturned ==
  /\ xfer.pc = "done"
  /\ xfer.kind = "ok"
  /\ xfer.direction = "all" /\ xfer.limit = 1 /\ xfer.skip = 1
  /\ xfer.transfers # <<>>
  /\ xfer.before.direction = "all" /\ xfer.before.limit = 1 /\ xfer.before.skip = 0
  /\ xfer.before.first # "none"

\* C27: when getTransfers({ limit: 1 }) and getTransfers({ limit: 1,
\* skip: 1 }) on an unchanged history both return a record, the two
\* records have different txids.
C27_PagesDiffer ==
  PagesReturned => xfer.transfers[1].txid # xfer.before.first

\* ---------------------------------------------------------------- C29

\* the Electrum calls of sendTransaction that precede broadcast
BeforeBroadcast == {"list_unspent", "get_transaction", "estimate_fee"}

\* a sendTransaction that began on a live account is suspended before
\* broadcast and dispose() has returned
DisposedWhileSuspended ==
  /\ call.op = "sendTransaction"
  /\ call.pc \in BeforeBroadcast
  /\ ~call.disposed
  /\ Disposed

\* C29: when dispose() is called while a sendTransaction is suspended at
\* an Electrum call that precedes broadcast, the send ends in an error: it
\* signs no transaction and issues no broadcast after dispose() returned.
C29_DisposedSendFails ==
  [][DisposedWhileSuspended =>
       /\ call'.pc # "broadcast"
       /\ "broadcast" \notin Range(call'.trace)
       /\ call'.tx = NoTx
       /\ (call'.pc = "idle" =>
             /\ result'.op \in {"sendTransaction", "dispose"}
             /\ (result'.op = "sendTransaction" =>
                   /\ result'.kind # "ok"
                   /\ result'.val.tx = NoTx
                   /\ "broadcast" \notin Range(result'.val.trace)))]_vars

\* a send that gathered its inputs ended in the TypeError of the build,
\* on an account that was live when the send began
C29_Witness ==
  /\ result.op = "sendTransaction"
  /\ ~result.disposed
  /\ Disposed
  /\ result.kind = "TypeError"
  /\ result.val.collected # <<>>
  /\ "estimate_fee" \in Range(result.val.trace)

\* ---------------------------------------------------------------- C30

\* C30: getTransfers never reports a change output as incoming: no record
\* of direction incoming belongs to a transaction that spends an output of
\* the account, whether the fetches of its parents answer or fail.
C30_ChangeNeverIncoming ==
  \A r \in Records : r.direction = "incoming" => Funding(r.txid)

\* ---------------------------------------------------------------- C28

\* the UTXOs a built transaction spends
Spent(tx) == {tx.ins[i] : i \in DOMAIN tx.ins}

\* both calls have issued their broadcast and neither has been answered
BothBroadcasting ==
  /\ call.op = "sendTransaction"
  /\ call.pc = "broadcast"
  /\ overlap.call.pc = "broadcast"

\* C28: two overlapping sendTransaction calls on one account, the second
\* begun while the first is suspended at an Electrum call before its
\* broadcast completed, never both broadcast transactions that spend the
\* same UTXO.
C28_NoSharedInput ==
  BothBroadcasting => Spent(call.tx) \cap Spent(overlap.call.tx) = {}

====
